---- MODULE Spec2Model ----
(***************************************************************************)
(* Model of show_model_training (src/app.py, lines 254-341): the model-    *)
(* training view of the flood dashboard.  The two module-level tables      *)
(* df_predicciones and df_puntos are joined, validated, coerced and        *)
(* filtered, then a RandomForest regressor is evaluated on an 80/20 split, *)
(* by 5-fold cross-validation and by a grid search of 12 candidates.       *)
(*                                                                         *)
(* A table is a record [columns, rows]: a set of column names and a        *)
(* sequence of rows, each row a function from the column names to cell     *)
(* values.  Fitting and scoring a forest is not computed: the scores are   *)
(* inputs chosen by the environment, and so is the failure of a fit.       *)
(***************************************************************************)
EXTENDS Integers, Sequences, FiniteSets, TLC

\* ------------------------------------------------------------------ bounds
\* Well-formed prediction rows in df_predicciones: 0..MaxFill.
MaxFill == 5
\* Arbitrary prediction rows put in front of the well-formed ones: 0..MaxFree.
MaxFree == 1
\* Well-formed catalog rows in df_puntos (all with the same id_punto): 0..MaxPuntos.
MaxPuntos == 2
\* Grid-search cells whose outcome differs from the common baseline score.
MaxDev == 1

\* ------------------------------------------------------------- cell values
\* A cell is a number, a string or a missing value (None / NaN).
Num(n) == [kind |-> "num", num |-> n, str |-> ""]
Str(s) == [kind |-> "str", num |-> 0, str |-> s]
NA == [kind |-> "na", num |-> 0, str |-> ""]

\* The cell values the input tables are filled with.
Val == {Num(1), Str("7"), Str("x"), NA}
\* The id_punto values of the input tables; the catalog's well-formed rows use Num(1).
IdVal == {Num(1), Num(2), NA}

\* pd.to_numeric(..., errors='coerce') on one cell: a number stays, a string
\* that parses as a number becomes it, every other value becomes NaN.
ParsesAsNumber(s) == s \in {"7"}
ParseNumber(s) == CASE s = "7" -> 7 [] OTHER -> 0
to_numeric(v) ==
    CASE v.kind = "num" -> v
      [] v.kind = "str" /\ ParsesAsNumber(v.str) -> Num(ParseNumber(v.str))
      [] OTHER -> NA

\* pandas' isna on one cell.
isna(v) == v.kind = "na"

\* ------------------------------------------------------------ column names
\* str.lower on the column names that occur in the model.
lower(c) ==
    CASE c = "ID_PUNTO" -> "id_punto"
      [] c = "Altitud" -> "altitud"
      [] OTHER -> c

required_cols == <<"nivel_precipitacion", "latitud", "longitud", "altitud", "riesgo_inundacion">>
geo_cols == <<"id_punto", "latitud", "longitud", "altitud">>

Range(s) == {s[i] : i \in DOMAIN s}

\* The elements of sequence s that satisfy Keep, in order.
RECURSIVE SelectSeqBy(_, _)
SelectSeqBy(s, keep) ==
    IF s = <<>> THEN <<>>
    ELSE (IF Head(s) \in keep THEN <<Head(s)>> ELSE <<>>) \o SelectSeqBy(Tail(s), keep)

\* ------------------------------------------------------------------ tables
NoFrame == [columns |-> {}, rows |-> <<>>]

\* DataFrame.empty: no rows or no columns.
empty(df) == df.rows = <<>> \/ df.columns = {}

\* df.columns = df.columns.str.lower(): the cells stay, the labels change.
lower_columns(df) ==
    LET new == {lower(c) : c \in df.columns}
        old(c) == CHOOSE o \in df.columns : lower(o) = c
    IN [columns |-> new,
        rows |-> [i \in DOMAIN df.rows |-> [c \in new |-> df.rows[i][old(c)]]]]

\* df[[...]]: the listed columns of every row.
select_columns(df, cols) ==
    [columns |-> Range(cols),
     rows |-> [i \in DOMAIN df.rows |-> [c \in Range(cols) |-> df.rows[i][c]]]]

\* The rows of `right` whose key equals k, in order.  pandas' merge matches a
\* missing key with a missing key.
RECURSIVE matching_rows(_, _, _)
matching_rows(rows, key, k) ==
    IF rows = <<>> THEN <<>>
    ELSE (IF Head(rows)[key] = k THEN <<Head(rows)>> ELSE <<>>)
         \o matching_rows(Tail(rows), key, k)

\* One left row of a left join: one output row per matching right row, or one
\* output row with the right columns missing when there is none.
merged_row(l, r, lcols, rcols) ==
    [c \in lcols \cup rcols |-> IF c \in lcols THEN l[c] ELSE r[c]]

unmatched_rowMutant(l, lcols, rcols) ==
    [c \in lcols \cup rcols |-> IF c \in lcols THEN l[c] ELSE Num(0)]
unmatched_row(l, lcols, rcols) ==
    [c \in lcols \cup rcols |-> IF c \in lcols THEN l[c] ELSE NA]

RECURSIVE merge_rows(_, _, _, _, _)
merge_rows(lrows, rrows, key, lcols, rcols) ==
    IF lrows = <<>> THEN <<>>
    ELSE LET l == Head(lrows)
             m == matching_rows(rrows, key, l[key])
             out == IF m = <<>>
                    THEN <<unmatched_row(l, lcols, rcols)>>
                    ELSE [i \in DOMAIN m |-> merged_row(l, m[i], lcols, rcols)]
         IN out \o merge_rows(Tail(lrows), rrows, key, lcols, rcols)

\* left.merge(right, on=key, how="left"), for tables that share only the key.
merge_left(left, right, key) ==
    [columns |-> left.columns \cup right.columns,
     rows |-> merge_rows(left.rows, right.rows, key, left.columns, right.columns)]

\* for col in required_cols: df[col] = pd.to_numeric(df[col], errors='coerce')
coerce_required(df) ==
    [columns |-> df.columns,
     rows |-> [i \in DOMAIN df.rows |->
                 [c \in df.columns |->
                     IF c \in Range(required_cols)
                     THEN to_numeric(df.rows[i][c])
                     ELSE df.rows[i][c]]]]

\* A row that dropna(subset=required_cols) keeps.
complete_row(row) == \A c \in Range(required_cols) : ~isna(row[c])

RECURSIVE keep_complete(_)
keep_complete(rows) ==
    IF rows = <<>> THEN <<>>
    ELSE (IF complete_row(Head(rows)) THEN <<Head(rows)>> ELSE <<>>)
         \o keep_complete(Tail(rows))

dropna_requiredMutant(df) == df
dropna_required(df) == [columns |-> df.columns, rows |-> keep_complete(df.rows)]

\* ------------------------------------------------- splitting and the folds
\* Program constants of the evaluation stages.
TestFifth == 5
CvFolds == 5
GridFolds == 3

\* train_test_split(test_size=0.2): n_test = ceil(0.2 * n), n_train = n - n_test.
n_test_of(n) == (n + TestFifth - 1) \div TestFifth
n_train_of(n) == n - n_test_of(n)

\* KFold(k) without shuffling on rows 1..n: the first n % k folds hold
\* n \div k + 1 consecutive rows, the others n \div k.
fold_size(n, k, j) == (n \div k) + (IF j <= n % k THEN 1 ELSE 0)

RECURSIVE fold_start(_, _, _)
fold_start(n, k, j) == IF j = 1 THEN 1 ELSE fold_start(n, k, j - 1) + fold_size(n, k, j - 1)

fold_testMutant(n, k, j) == fold_start(n, k, j) .. (fold_start(n, k, j) + (n \div k) - 1)
fold_test(n, k, j) == fold_start(n, k, j) .. (fold_start(n, k, j) + fold_size(n, k, j) - 1)
fold_train(n, k, j) == (1 .. n) \ fold_test(n, k, j)

KFold(n, k) == [j \in 1 .. k |-> [test |-> fold_test(n, k, j), train |-> fold_train(n, k, j)]]

RECURSIVE SumSeq(_)
SumSeq(s) == IF s = <<>> THEN 0 ELSE Head(s) + SumSeq(Tail(s))

\* --------------------------------------------------------- the grid search
\* max_depth=None (unlimited) is written NoDepthLimit.
NoDepthLimit == 0
param_grid ==
    [n_estimators |-> <<100, 200>>,
     max_depth |-> <<5, 10, NoDepthLimit>>,
     min_samples_split |-> <<2, 5>>]

\* ParameterGrid enumerates the product with the keys sorted by name
\* (max_depth, min_samples_split, n_estimators), the last key varying fastest.
n_candidates ==
    Len(param_grid.max_depth) * Len(param_grid.min_samples_split) * Len(param_grid.n_estimators)

candidate(i) ==
    LET ne == Len(param_grid.n_estimators)
        ms == Len(param_grid.min_samples_split)
    IN [max_depth |-> param_grid.max_depth[((i - 1) \div (ne * ms)) + 1],
        min_samples_split |-> param_grid.min_samples_split[(((i - 1) \div ne) % ms) + 1],
        n_estimators |-> param_grid.n_estimators[((i - 1) % ne) + 1]]

Candidates == 1 .. n_candidates
Cells == Candidates \X (1 .. GridFolds)

\* The outcome of fitting and scoring one cell: a neg_mean_squared_error
\* score, or a failed fit, which error_score=np.nan (the default, line 332)
\* turns into the score NaN.
Scored(x) == [failed |-> FALSE, score |-> x]
FitFailed == [failed |-> TRUE, score |-> 0]

\* mean_test_score of a candidate, kept as the sum of its fold scores (the
\* fold count is the same for all candidates); NaN when a fold's score is NaN.
is_nan_mean(results, i) == \E f \in 1 .. GridFolds : results[<<i, f>>].failed
sum_test_score(results, i) == SumSeq([f \in 1 .. GridFolds |-> results[<<i, f>>].score])

\* i is ranked no worse than j: NaN means are ranked last.
no_worse(results, i, j) ==
    \/ is_nan_mean(results, j)
    \/ /\ ~is_nan_mean(results, i)
       /\ sum_test_score(results, i) >= sum_test_score(results, j)

\* best_index_ = rank_test_score.argmin(): the first candidate of rank 1.
best_indexMutant(results) ==
    CHOOSE i \in Candidates :
        /\ \A j \in Candidates : no_worse(results, i, j)
        /\ \A j \in Candidates : (j > i) => ~no_worse(results, j, i)
best_index_of(results) ==
    CHOOSE i \in Candidates :
        /\ \A j \in Candidates : no_worse(results, i, j)
        /\ \A j \in Candidates : (j < i) => ~no_worse(results, j, i)

\* ------------------------------------------------------------------- state
VARIABLES
    df_predicciones,  \* module-level table "fechas_riesgo_inundacion" (line 47)
    df_puntos,        \* module-level table "puntos_inundacion" (line 49)
    env,              \* what fitting and scoring will yield: [cv_rmse, grid]
    pc,               \* position in show_model_training
    df_model,         \* the local df_model once assembled (line 290)
    ui,               \* the items written to the page, in order
    reported,         \* the column names listed by the message of line 284
    exc,              \* the exception that left the function, if any
    steps,            \* the library operations executed so far, in order
    fits,             \* number of estimator fits executed so far
    split,            \* [n_train, n_test] of line 301
    cv,               \* [folds, scores, mean_rmse] of lines 314-315
    grid              \* [results, best_index, best_params, refit_rows] of lines 332-338

vars == <<df_predicciones, df_puntos, env, pc, df_model, ui, reported, exc, steps,
          fits, split, cv, grid>>

NoExc == [type |-> "none", at |-> "", names |-> <<>>]
NoSplit == [n_train |-> 0, n_test |-> 0]
NoCv == [folds |-> <<>>, scores |-> <<>>, mean_rmse |-> [num |-> 0, den |-> 1]]
NoParams == [max_depth |-> 0, min_samples_split |-> 0, n_estimators |-> 0]
NoGrid == [results |-> <<>>, best_index |-> 0, best_params |-> NoParams, refit_rows |-> 0]

\* ------------------------------------------------------------------ inputs
PredStd == {"id_punto", "nivel_precipitacion", "riesgo_inundacion"}
PuntoStd == {"id_punto", "latitud", "longitud", "altitud"}

PredColumnSets ==
    {a \cup b \cup c : a \in {{}, {"id_punto"}, {"ID_PUNTO"}},
                       b \in {{}, {"nivel_precipitacion"}},
                       c \in {{}, {"riesgo_inundacion"}}}
PuntoColumnSets ==
    {a \cup b \cup c \cup d : a \in {{}, {"id_punto"}},
                              b \in {{}, {"latitud"}},
                              c \in {{}, {"longitud"}},
                              d \in {{}, {"altitud"}, {"Altitud"}}}

\* A row over the column set cols, from values given per lower-case name.
MkRow(cols, vals) == [c \in cols |-> vals[lower(c)]]

GoodPred == [id_punto |-> Num(1), nivel_precipitacion |-> Num(1), riesgo_inundacion |-> Num(1)]
GoodPunto == [id_punto |-> Num(1), latitud |-> Num(1), longitud |-> Num(1), altitud |-> Num(1)]

FreePred ==
    {[id_punto |-> i, nivel_precipitacion |-> a, riesgo_inundacion |-> b] :
        i \in IdVal, a \in Val, b \in Val}
FreePunto ==
    {[id_punto |-> i, latitud |-> a, longitud |-> b, altitud |-> c] :
        i \in IdVal, a \in Val, b \in Val, c \in Val}

SeqsUpTo(S, n) == UNION {[1 .. m -> S] : m \in 0 .. n}

Copies(row, k) == [i \in 1 .. k |-> row]

Table(cols, valrows) ==
    [columns |-> cols, rows |-> [i \in DOMAIN valrows |-> MkRow(cols, valrows[i])]]

\* Scores of the environment: the common case, and the cases off it.
BaseCv == [j \in 1 .. CvFolds |-> 1]
CvOracles == [1 .. CvFolds -> {1, 2}]

BaseGrid == [c \in Cells |-> Scored(-2)]
DevOutcomes == {Scored(-1), Scored(-3), FitFailed}
RECURSIVE GridOracles(_)
GridOracles(d) ==
    IF d = 0 THEN {BaseGrid}
    ELSE LET prev == GridOracles(d - 1)
         IN prev \cup {[o EXCEPT ![c] = v] : o \in prev, c \in Cells, v \in DevOutcomes}

Start(pred, puntos, e) ==
    /\ df_predicciones = pred
    /\ df_puntos = puntos
    /\ env = e
    /\ pc = "start"
    /\ df_model = NoFrame
    /\ ui = <<>>
    /\ reported = <<>>
    /\ exc = NoExc
    /\ steps = <<>>
    /\ fits = 0
    /\ split = NoSplit
    /\ cv = NoCv
    /\ grid = NoGrid

BaseEnv == [cv_rmse |-> BaseCv, grid |-> BaseGrid]

\* The inputs vary along one axis at a time: the column sets of both tables,
\* the prediction rows, the catalog rows, the cross-validation scores, the
\* grid-search outcomes.  Every axis is combined with every row count.
InitColumns ==
    \E pcols \in PredColumnSets, qcols \in PuntoColumnSets, k \in 0 .. MaxFill :
        Start(Table(pcols, Copies(GoodPred, k)), Table(qcols, <<GoodPunto>>), BaseEnv)

InitPredRows ==
    \E free \in SeqsUpTo(FreePred, MaxFree), k \in 0 .. MaxFill :
        Start(Table(PredStd, free \o Copies(GoodPred, k)), Table(PuntoStd, <<GoodPunto>>),
              BaseEnv)

InitPuntoRows ==
    \E j \in 0 .. MaxPuntos, free \in SeqsUpTo(FreePunto, 1), k \in 0 .. MaxFill :
        Start(Table(PredStd, Copies(GoodPred, k)),
              Table(PuntoStd, Copies(GoodPunto, j) \o free), BaseEnv)

InitCv ==
    \E o \in CvOracles, k \in 0 .. MaxFill, j \in 1 .. MaxPuntos :
        Start(Table(PredStd, Copies(GoodPred, k)), Table(PuntoStd, Copies(GoodPunto, j)),
              [cv_rmse |-> o, grid |-> BaseGrid])

InitGrid ==
    \E o \in GridOracles(MaxDev), k \in 0 .. MaxFill :
        Start(Table(PredStd, Copies(GoodPred, k)), Table(PuntoStd, <<GoodPunto>>),
              [cv_rmse |-> BaseCv, grid |-> o])

Init == InitColumns \/ InitPredRows \/ InitPuntoRows \/ InitCv \/ InitGrid

\* ------------------------------------------------- lines 254-294: assembly
\* Line 262-263: df_model is a copy of df_predicciones with lower-case labels.
model_renamed == lower_columns(df_predicciones)
\* Line 264: df_puntos itself gets lower-case labels.
puntos_renamed == lower_columns(df_puntos)

\* Line 257: either table is empty.
no_data == empty(df_predicciones) \/ empty(df_puntos)
\* Line 267.
nivel_missingMutant == FALSE
nivel_missing == "nivel_precipitacion" \notin model_renamed.columns
\* Line 272.
id_punto_missing ==
    "id_punto" \notin model_renamed.columns \/ "id_punto" \notin puntos_renamed.columns
\* Line 277: a listed column is not in df_puntos.
geo_missing == ~(Range(geo_cols) \subseteq puntos_renamed.columns)

\* Line 277-278: the catalog's four columns joined onto df_model.
model_merged == merge_left(model_renamed, select_columns(puntos_renamed, geo_cols), "id_punto")

\* Line 282: the required columns df_model lacks, in the order of required_cols.
missing_of(df) == SelectSeqBy(required_cols, Range(required_cols) \ df.columns)

\* The function ends: by return after a message, or by an exception.
Finish(items, e) ==
    /\ pc' = "done"
    /\ ui' = ui \o items
    /\ exc' = e

\* Lines 257-259: one of the tables is empty.
EmptyGuard ==
    /\ pc = "start"
    /\ no_data
    /\ Finish(<<"warning_no_hay_datos">>, NoExc)
    /\ UNCHANGED <<df_predicciones, df_puntos, env, df_model, reported, steps, fits,
                   split, cv, grid>>

\* Lines 262-269: no column nivel_precipitacion in the predictions.
MissingNivel ==
    /\ pc = "start"
    /\ ~no_data
    /\ nivel_missing
    /\ df_puntos' = puntos_renamed
    /\ Finish(<<"error_nivel_precipitacion">>, NoExc)
    /\ UNCHANGED <<df_predicciones, env, df_model, reported, steps, fits, split, cv, grid>>

\* Lines 262-274: no column id_punto in one of the tables.
MissingIdPunto ==
    /\ pc = "start"
    /\ ~no_data
    /\ ~nivel_missing
    /\ id_punto_missing
    /\ df_puntos' = puntos_renamed
    /\ Finish(<<"error_id_punto">>, NoExc)
    /\ UNCHANGED <<df_predicciones, env, df_model, reported, steps, fits, split, cv, grid>>

\* Lines 262-277: df_puntos[["id_punto", "latitud", "longitud", "altitud"]]
\* raises KeyError, naming the listed columns the catalog lacks.
SelectKeyError ==
    /\ pc = "start"
    /\ ~no_data
    /\ ~nivel_missing
    /\ ~id_punto_missing
    /\ geo_missing
    /\ df_puntos' = puntos_renamed
    /\ Finish(<<>>, [type |-> "KeyError", at |-> "select_columns",
                     names |-> SelectSeqBy(geo_cols, Range(geo_cols) \ puntos_renamed.columns)])
    /\ UNCHANGED <<df_predicciones, env, df_model, reported, steps, fits, split, cv, grid>>

\* Lines 262-285: the join is made and a required column is still missing.
MissingRequired ==
    /\ pc = "start"
    /\ ~no_data
    /\ ~nivel_missing
    /\ ~id_punto_missing
    /\ ~geo_missing
    /\ missing_of(model_merged) # <<>>
    /\ df_puntos' = puntos_renamed
    /\ steps' = steps \o <<"merge">>
    /\ reported' = missing_of(model_merged)
    /\ Finish(<<"error_faltan_columnas">>, NoExc)
    /\ UNCHANGED <<df_predicciones, env, df_model, fits, split, cv, grid>>

\* Lines 262-294: the join is made, the required columns are coerced to
\* numbers and the rows with a missing required value are dropped.
Assemble ==
    /\ pc = "start"
    /\ ~no_data
    /\ ~nivel_missing
    /\ ~id_punto_missing
    /\ ~geo_missing
    /\ missing_of(model_merged) = <<>>
    /\ df_puntos' = puntos_renamed
    /\ df_model' = dropna_required(coerce_required(model_merged))
    /\ steps' = steps \o <<"merge", "to_numeric", "dropna">>
    /\ pc' = "split"
    /\ UNCHANGED <<df_predicciones, env, ui, reported, exc, fits, split, cv, grid>>

\* ------------------------------------------ lines 301-311: the 80/20 split
n_rows == Len(df_model.rows)

\* Line 301: train_test_split raises ValueError when the train set would be empty.
SplitRaises ==
    /\ pc = "split"
    /\ n_train_of(n_rows) = 0
    /\ steps' = steps \o <<"train_test_split">>
    /\ Finish(<<>>, [type |-> "ValueError", at |-> "train_test_split", names |-> <<>>])
    /\ UNCHANGED <<df_predicciones, df_puntos, env, df_model, reported, fits, split, cv, grid>>

\* Lines 301-311: split, fit on the train rows, score on the test rows, and
\* write RMSE and R2.
SplitFitReport ==
    /\ pc = "split"
    /\ n_train_of(n_rows) > 0
    /\ split' = [n_train |-> n_train_of(n_rows), n_test |-> n_test_of(n_rows)]
    /\ fits' = fits + 1
    /\ steps' = steps \o <<"train_test_split", "fit", "predict">>
    /\ ui' = ui \o <<"rmse", "r2">>
    /\ pc' = "cv"
    /\ UNCHANGED <<df_predicciones, df_puntos, env, df_model, reported, exc, cv, grid>>

\* ------------------------------------- lines 313-315: cross-validation
\* Line 314: KFold(5) raises ValueError when there are fewer rows than folds.
CrossValRaises ==
    /\ pc = "cv"
    /\ n_rows < CvFolds
    /\ steps' = steps \o <<"cross_val_score">>
    /\ Finish(<<>>, [type |-> "ValueError", at |-> "cross_val_score", names |-> <<>>])
    /\ UNCHANGED <<df_predicciones, df_puntos, env, df_model, reported, fits, split, cv, grid>>

\* -cv_scores.mean(), as a fraction.
mean_rmse_of(scores) == [num |-> 0 - SumSeq(scores), den |-> Len(scores)]

\* Lines 314-315: one fit and one neg_root_mean_squared_error score per
\* fold, and the mean RMSE written.
CrossVal ==
    /\ pc = "cv"
    /\ n_rows >= CvFolds
    /\ LET scores == [j \in 1 .. CvFolds |-> 0 - env.cv_rmse[j]]
       IN cv' = [folds |-> KFold(n_rows, CvFolds), scores |-> scores,
                 mean_rmse |-> mean_rmse_of(scores)]
    /\ fits' = fits + CvFolds
    /\ steps' = steps \o <<"cross_val_score">>
    /\ ui' = ui \o <<"cv_rmse">>
    /\ pc' = "bias"
    /\ UNCHANGED <<df_predicciones, df_puntos, env, df_model, reported, exc, split, grid>>

\* Lines 317-322: train RMSE and, again, test RMSE.
BiasVariance ==
    /\ pc = "bias"
    /\ steps' = steps \o <<"predict">>
    /\ ui' = ui \o <<"train_rmse", "test_rmse">>
    /\ pc' = "grid"
    /\ UNCHANGED <<df_predicciones, df_puntos, env, df_model, reported, exc, fits, split,
                   cv, grid>>

\* ------------------------------------------ lines 324-336: the grid search
\* Lines 332-333: every candidate is fitted and scored on every fold; a
\* failed fit is scored NaN and the search goes on; the best candidate is
\* refitted on all rows.  (All cells failing, which raises, needs more failed
\* cells than the inputs hold.  Here n_rows >= CvFolds > GridFolds.)
search_results == [c \in Cells |-> env.grid[c]]

GridSearch ==
    /\ pc = "grid"
    /\ LET best == best_index_of(search_results)
       IN grid' = [results |-> search_results, best_index |-> best,
                   best_params |-> candidate(best), refit_rows |-> n_rows]
    /\ fits' = fits + Cardinality(Cells) + 1
    /\ steps' = steps \o <<"grid_fit">>
    /\ ui' = ui \o <<"buscando", "best_params">>
    /\ pc' = "importances"
    /\ UNCHANGED <<df_predicciones, df_puntos, env, df_model, reported, exc, split, cv>>

\* Lines 338-341: the importances of the refitted model, charted ascending.
Importances ==
    /\ pc = "importances"
    /\ Finish(<<"importancias">>, NoExc)
    /\ UNCHANGED <<df_predicciones, df_puntos, env, df_model, reported, steps, fits,
                   split, cv, grid>>

Next ==
    \/ EmptyGuard
    \/ MissingNivel
    \/ MissingIdPunto
    \/ SelectKeyError
    \/ MissingRequired
    \/ Assemble
    \/ SplitRaises
    \/ SplitFitReport
    \/ CrossValRaises
    \/ CrossVal
    \/ BiasVariance
    \/ GridSearch
    \/ Importances

Spec == Init /\ [][Next]_vars

\* ================================================================== claims
LowerNames(df) == {lower(c) : c \in df.columns}
Assembled == "dropna" \in Range(steps)
ReportItems == {"rmse", "r2", "cv_rmse", "train_rmse", "best_params", "importancias"}

\* A cell that holds a number, as a number or as text that reads as one.
NumberLike(v) == v.kind = "num" \/ v = Str("7")
NumberLikeRows(rows) ==
    {i \in DOMAIN rows : \A c \in Range(required_cols) : NumberLike(rows[i][c])}

\* C1: once df_model is assembled, each of its rows holds a number in each of
\* the five required columns, and its rows are as many as the joined rows
\* that held a number (or text reading as one) in all five: a joined row with
\* a missing or non-numeric required value is left out, not filled in.
C1_AssembledRowsComplete ==
    Assembled =>
        /\ \A i \in DOMAIN df_model.rows : \A c \in Range(required_cols) :
               /\ c \in DOMAIN df_model.rows[i]
               /\ df_model.rows[i][c].kind = "num"
        /\ Len(df_model.rows) = Cardinality(NumberLikeRows(model_merged.rows))

\* A joined row with a bad required value was left out, some rows were kept,
\* and the split has run on them.
C1_Witness ==
    /\ pc = "cv"
    /\ Len(df_model.rows) > 0
    /\ Len(df_model.rows) < Len(model_merged.rows)

HasCatalogRow(id) == \E j \in DOMAIN df_puntos.rows : df_puntos.rows[j]["id_punto"] = id
MatchingPairs ==
    {p \in (DOMAIN model_renamed.rows) \X (DOMAIN df_puntos.rows) :
        model_renamed.rows[p[1]]["id_punto"] = df_puntos.rows[p[2]]["id_punto"]}

\* C2: once df_model is assembled, every row of it carries an id_punto that
\* some catalog row has, and it has no more rows than there are matching
\* (prediction row, catalog row) pairs: a prediction row without a catalog
\* row is not in it.
C2_UnmatchedRowsLeftOut ==
    Assembled =>
        /\ \A i \in DOMAIN df_model.rows : HasCatalogRow(df_model.rows[i]["id_punto"])
        /\ Len(df_model.rows) <= Cardinality(MatchingPairs)

\* A prediction row had no catalog row, and the split has run on the others.
C2_Witness ==
    /\ pc = "cv"
    /\ \E i \in DOMAIN model_renamed.rows : ~HasCatalogRow(model_renamed.rows[i]["id_punto"])

AbsentRequired ==
    ({"latitud", "longitud", "altitud"} \ LowerNames(df_puntos))
        \cup ({"riesgo_inundacion"} \ LowerNames(df_predicciones))
KeysAbsent ==
    \/ "nivel_precipitacion" \notin LowerNames(df_predicciones)
    \/ "id_punto" \notin LowerNames(df_predicciones)
    \/ "id_punto" \notin LowerNames(df_puntos)
NoData == empty(df_predicciones) \/ empty(df_puntos)

\* C3: when the tables are not empty and hold the key columns, and a required
\* column is absent from them, the call ends with an error that names every
\* absent required column, and no model is fitted.
C3_EveryAbsentColumnNamed ==
    (pc = "done" /\ ~NoData /\ ~KeysAbsent /\ AbsentRequired # {}) =>
        /\ fits = 0
        /\ AbsentRequired \subseteq (Range(reported) \cup Range(exc.names))

\* C4 as claimed: when nivel_precipitacion or id_punto is absent, the call
\* ends with a schema error and nothing of the pipeline has run.
C4_SchemaErrorWheneverKeysAbsent ==
    (pc = "done" /\ KeysAbsent) =>
        /\ ui \in {<<"error_nivel_precipitacion">>, <<"error_id_punto">>}
        /\ steps = <<>>
        /\ fits = 0

\* C4: when nivel_precipitacion or id_punto is absent, no join, split, fit or
\* scoring is ever executed; the call ends with the schema error of the first
\* absent key column when both tables have data, and with the no-data warning
\* when one of them is empty.
C4_KeysAbsentShortCircuit ==
    KeysAbsent =>
        /\ steps = <<>>
        /\ fits = 0
        /\ pc \in {"start", "done"}
        /\ pc = "done" =>
            /\ exc = NoExc
            /\ ui = IF NoData THEN <<"warning_no_hay_datos">>
                    ELSE IF "nivel_precipitacion" \notin LowerNames(df_predicciones)
                         THEN <<"error_nivel_precipitacion">>
                         ELSE <<"error_id_punto">>

\* Both tables have data, a key column is absent, and the call has ended
\* with a schema error.
C4_Witness ==
    /\ pc = "done"
    /\ KeysAbsent
    /\ ~NoData
    /\ ui \in {<<"error_nivel_precipitacion">>, <<"error_id_punto">>}

TooSmall(n) == n = 0 \/ n_test_of(n) < 2 \/ n_train_of(n) < 2

\* C5: when the assembled df_model is empty or too small for the 80/20 split
\* to leave two rows on each side, the call ends with the insufficient-data
\* message, without an exception and without a fit.
C5_InsufficientDataGuard ==
    (pc = "done" /\ Assembled /\ TooSmall(Len(df_model.rows))) =>
        /\ fits = 0
        /\ exc = NoExc
        /\ ui = <<"warning_no_hay_datos">>

\* C6: when the call has ended, the report items are all written or none is.
C6_AllOrNothingReport ==
    pc = "done" =>
        \/ ReportItems \subseteq Range(ui)
        \/ ReportItems \cap Range(ui) = {}

\* C7: no step changes df_predicciones or df_puntos.
C7_InputsUnchanged ==
    [][df_predicciones' = df_predicciones /\ df_puntos' = df_puntos]_vars

Searched == grid.best_index # 0
NanMean(i) == \E f \in 1 .. 3 : grid.results[<<i, f>>].failed
TotalScore(i) ==
    grid.results[<<i, 1>>].score + grid.results[<<i, 2>>].score + grid.results[<<i, 3>>].score

\* C8: when the search has run, it has scored the 12 combinations of the
\* grid on 3 folds each (36 fits, and one refit), the returned candidate has
\* the best mean score, no candidate before it in grid order has a score as
\* good, and the returned model is that candidate refitted on all rows.
C8_GridSearchExhaustiveFirstBest ==
    Searched =>
        /\ {candidate(i) : i \in 1 .. 12} =
               {[max_depth |-> d, min_samples_split |-> m, n_estimators |-> e] :
                   d \in {5, 10, NoDepthLimit}, m \in {2, 5}, e \in {100, 200}}
        /\ DOMAIN grid.results = (1 .. 12) \X (1 .. 3)
        /\ fits = 1 + 5 + 36 + 1
        /\ ~NanMean(grid.best_index)
        /\ \A j \in 1 .. 12 : ~NanMean(j) =>
               /\ TotalScore(j) <= TotalScore(grid.best_index)
               /\ j < grid.best_index => TotalScore(j) < TotalScore(grid.best_index)
        /\ grid.best_params = candidate(grid.best_index)
        /\ grid.refit_rows = Len(df_model.rows)

\* The search has run, several candidates tie for the best score and the
\* first of them, which is not the first of the grid, is returned.
C8_Witness ==
    /\ pc = "done"
    /\ Searched
    /\ grid.best_index > 1
    /\ \E j \in 1 .. 12 :
           /\ j > grid.best_index
           /\ ~NanMean(j)
           /\ TotalScore(j) = TotalScore(grid.best_index)

CrossValidated == DOMAIN cv.folds # {}

\* C9: when cross-validation has run, df_model has at least 5 rows, every row
\* is in the test rows of exactly one of the 5 folds and in the train rows of
\* exactly the other four, and the value written is the mean of the five
\* per-fold RMSE values.
C9_CrossValidationCoverage ==
    CrossValidated =>
        LET n == Len(df_model.rows)
        IN /\ n >= 5
           /\ DOMAIN cv.folds = 1 .. 5
           /\ \A j \in 1 .. 5 : cv.folds[j].test \cup cv.folds[j].train = 1 .. n
           /\ \A r \in 1 .. n :
                  /\ Cardinality({j \in 1 .. 5 : r \in cv.folds[j].test}) = 1
                  /\ Cardinality({j \in 1 .. 5 : r \in cv.folds[j].train}) = 4
                  /\ \A j \in 1 .. 5 : ~(r \in cv.folds[j].test /\ r \in cv.folds[j].train)
           /\ cv.mean_rmse.den = 5
           /\ cv.mean_rmse.num = env.cv_rmse[1] + env.cv_rmse[2] + env.cv_rmse[3]
                                   + env.cv_rmse[4] + env.cv_rmse[5]

\* Cross-validation has run on a row count that 5 does not divide, with
\* per-fold RMSE values that differ.
C9_Witness ==
    /\ pc = "done"
    /\ CrossValidated
    /\ Len(df_model.rows) % 5 # 0
    /\ \E j \in 1 .. 5 : env.cv_rmse[j] # env.cv_rmse[1]

\* C10: when the fit of a cell of the grid search has failed, neither the
\* best parameters nor the importances are written.
C10_FailedCellAbortsSearch ==
    (pc \in {"importances", "done"} /\ \E c \in Cells : env.grid[c].failed) =>
        /\ "best_params" \notin Range(ui)
        /\ "importancias" \notin Range(ui)
        /\ ~Searched

====
